---- MODULE Spec2Model ----
(***************************************************************************)
(* Turbidity classifier: the image-to-tensor preprocessing pipeline, the   *)
(* deterministic scorer (hashTensor, createRng, softmax, buildResult,      *)
(* predict) and the POST /api/predict handler.                             *)
(*                                                                         *)
(* Number representation.                                                  *)
(*  - A JavaScript int32 / uint32 is a pair <<hi, lo>> of 16-bit halves,   *)
(*    so that every 32-bit wraparound is computed explicitly.              *)
(*  - A Float32Array element is a fixed-point integer in units of 10^-6    *)
(*    (the store into the typed array is where the code rounds).           *)
(*  - In the scorer a brightness is a fixed-point integer in units of      *)
(*    10^-8; logits, exponentials and probabilities are fixed-point with   *)
(*    24 fractional bits.                                                  *)
(*  - The doubles of applyGrayWorld are IEEE 754 binary64 values           *)
(*    <<mantissa, exponent>>, every operation rounded to nearest, ties to  *)
(*    even; a mantissa is a sequence of base-2^15 digits.                  *)
(***************************************************************************)
EXTENDS Integers, Sequences, FiniteSets, TLC

\* ------------------------------------------------------------------------
\* 32-bit words as <<hi, lo>> halves
\* ------------------------------------------------------------------------
H16 == 2^16

\* Op applied to the value of e, which is computed once
Bind(e, Op(_)) == CHOOSE r \in { Op(v) : v \in {e} } : TRUE

\* ToInt32 of an integer n: n | 0
Int32(n) == << (n \div H16) % H16, n % H16 >>

\* bit i of a ^ b and of a | b, in place
XorBit(a, b, i) == (((a \div 2^i) + (b \div 2^i)) % 2) * 2^i
OrBit(a, b, i) ==
    (IF (a \div 2^i) % 2 = 1 \/ (b \div 2^i) % 2 = 1 THEN 1 ELSE 0) * 2^i

Xor4(a, b, i) ==
    (XorBit(a, b, i) + XorBit(a, b, i + 1)) + (XorBit(a, b, i + 2) + XorBit(a, b, i + 3))
Or4(a, b, i) ==
    (OrBit(a, b, i) + OrBit(a, b, i + 1)) + (OrBit(a, b, i + 2) + OrBit(a, b, i + 3))

Xor16(a, b) == (Xor4(a, b, 0) + Xor4(a, b, 4)) + (Xor4(a, b, 8) + Xor4(a, b, 12))
Or16(a, b) == (Or4(a, b, 0) + Or4(a, b, 4)) + (Or4(a, b, 8) + Or4(a, b, 12))

\* a ^ b
Xor32(a, b) == << Xor16(a[1], b[1]), Xor16(a[2], b[2]) >>

\* a | b
Or32(a, b) == << Or16(a[1], b[1]), Or16(a[2], b[2]) >>

\* (a + b) | 0
Add32(a, b) ==
    LET lo == a[2] + b[2]
    IN  << (a[1] + b[1] + lo \div H16) % H16, lo % H16 >>

\* (-a) | 0
Neg32(a) == Add32(<< (H16 - 1) - a[1], (H16 - 1) - a[2] >>, <<0, 1>>)

\* (a - b) | 0
Sub32(a, b) == Add32(a, Neg32(b))

\* a << n, for 0 < n < 16
Shl32(a, n) ==
    << (a[1] * 2^n + a[2] \div 2^(16 - n)) % H16, (a[2] * 2^n) % H16 >>

\* a >>> n, for 0 < n < 16
Shr32(a, n) ==
    << a[1] \div 2^n, (a[1] % 2^n) * 2^(16 - n) + a[2] \div 2^n >>

\* the full product of two 16-bit halves, as a word
Mul16(x, y) ==
    LET p == x * (y % 256)
        q == x * (y \div 256)
        s == p + (q % 256) * 256
    IN  << (s \div H16 + q \div 256) % H16, s % H16 >>

\* Math.imul(a, b)
Imul(a, b) ==
    Bind(Mul16(a[2], b[2]), LAMBDA ll :
        << (ll[1] + Mul16(a[1], b[2])[2] + Mul16(a[2], b[1])[2]) % H16, ll[2] >>)

\* the sign bit of an int32
IsNeg32(a) == a[1] >= 2^15

\* ------------------------------------------------------------------------
\* hashTensor and createRng (mulberry32)
\* ------------------------------------------------------------------------
\* Math.round((v + 3) * 10000) for a tensor element v (units of 10^-6);
\* Math.round is floor(x + 0.5)
RoundTerm(v) == (v + 3000050) \div 100

\* hash = ((hash << 5) - hash + Math.round((tensor[i] + 3) * 10000)) | 0
HashStep(hash, v) == Add32(Sub32(Shl32(hash, 5), hash), Int32(RoundTerm(v)))

\* every element read, whatever the length
StrideOfOne(len) == 1

\* const step = Math.max(1, Math.floor(tensor.length / 256))
HashStride(len) == IF len \div 256 > 1 THEN len \div 256 ELSE 1

RECURSIVE HashFrom(_, _, _, _)
HashFrom(tensor, i, step, hash) ==
    IF i >= Len(tensor) THEN hash
    ELSE Bind(HashStep(hash, tensor[i + 1]), LAMBDA h : HashFrom(tensor, i + step, step, h))

\* Math.abs(hash), then seed | 0 in createRng
AbsWord(hash) == IF IsNeg32(hash) THEN Neg32(hash) ELSE hash

hashTensor(tensor) ==
    AbsWord(HashFrom(tensor, 0, HashStride(Len(tensor)), <<0, 0>>))

\* the generator's increment 0x6d2b79f5
RngIncrement == << 27947, 31221 >>

\* s = (s + 0x6d2b79f5) | 0
RngAdvance(s) == Add32(s, RngIncrement)

\* the value returned for the advanced state s, as the uint32 u of u / 2^32
RngOutput(s) ==
    Bind(Xor32(s, Shr32(s, 15)), LAMBDA a :
    Bind(Or32(<<0, 1>>, s), LAMBDA b :
    Bind(Imul(a, b), LAMBDA t1 :
    Bind(Xor32(t1, Shr32(t1, 7)), LAMBDA c :
    Bind(Or32(<<0, 61>>, t1), LAMBDA d :
    Bind(Xor32(Add32(t1, Imul(c, d)), t1), LAMBDA t2 :
        Xor32(t2, Shr32(t2, 14))))))))

\* ------------------------------------------------------------------------
\* Class tables (types/turbidity.ts)
\* ------------------------------------------------------------------------
TURBIDITY_CLASSES ==
    << "ultra_cloudy", "very_cloudy", "cloudy",
       "lightly_cloudy", "lightly_clear", "clear" >>

TURBIDITY_LABELS ==
    [ ultra_cloudy |-> "Ultra Cloudy", very_cloudy |-> "Very Cloudy",
      cloudy |-> "Cloudy", lightly_cloudy |-> "Lightly Cloudy",
      lightly_clear |-> "Lightly Clear", clear |-> "Clear" ]

\* NTU values in hundredths (1.47 is 147)
NTU_RANGES ==
    [ ultra_cloudy   |-> [min |-> 333600, max |-> 384400],
      very_cloudy    |-> [min |-> 130000, max |-> 252000],
      cloudy         |-> [min |-> 60000,  max |-> 120000],
      lightly_cloudy |-> [min |-> 15000,  max |-> 45000],
      lightly_clear  |-> [min |-> 2500,   max |-> 9000],
      clear          |-> [min |-> 147,    max |-> 1713] ]

\* ------------------------------------------------------------------------
\* Fixed-point helpers
\* ------------------------------------------------------------------------
\* 1.0 as a logit, an exponential or a probability (24 fractional bits)
FIX == 2^24

\* 1.0 as a brightness (units of 10^-8)
ONE == 10^8

\* floor(a * b / FIX) for 0 <= a, b <= 2 * FIX
MulFix(a, b) ==
    LET ah == a \div 2^12
        al == a % 2^12
        bh == b \div 2^12
        bl == b % 2^12
    IN  ah * bh + ((ah * bl + al * bh) + (al * bl) \div 2^12) \div 2^12

\* the k hexadecimal digits after the point of r / s, for 0 <= r < s < 2^27
RECURSIVE FracDiv(_, _, _)
FracDiv(r, s, k) ==
    IF k = 0 THEN 0
    ELSE ((r * 16) \div s) * 16^(k - 1)
            + Bind((r * 16) % s, LAMBDA rest : FracDiv(rest, s, k - 1))

\* floor(e * FIX / s) for 0 <= e <= s
DivFix(e, s) == (e \div s) * FIX + FracDiv(e % s, s, 6)

\* A sum too wide for one integer, as <<h, l>> meaning h * 10^8 + l, 0 <= l < 10^8
WideOf(n) == << n \div 10^8, n % 10^8 >>

WideAdd(x, y) ==
    LET l == x[2] + y[2]
    IN  << x[1] + y[1] + l \div 10^8, l % 10^8 >>

\* floor(x / d) for 0 < d <= 21, still wide
WideDiv(x, d) ==
    LET rest == (x[1] % d) * 10^8 + x[2]
    IN  WideAdd(<< x[1] \div d, 0 >>, WideOf(rest \div d))

WideToInt(x) == x[1] * 10^8 + x[2]

Min2(a, b) == IF a < b THEN a ELSE b
Max2(a, b) == IF a > b THEN a ELSE b

\* ------------------------------------------------------------------------
\* The scorer (services/classifier.ts)
\* ------------------------------------------------------------------------
\* const means = [0.485, 0.456, 0.406], const stds = [0.229, 0.224, 0.225],
\* in thousandths
ScorerMeans == << 485, 456, 406 >>
ScorerStds == << 229, 224, 225 >>

\* channelSum over the plane of channel c (1..3): the sum of
\* data[offset + i] * stds[c] + means[c], in units of 10^-9, wide
RECURSIVE ChannelSumFrom(_, _, _, _, _)
ChannelSumFrom(data, c, totalPixels, i, acc) ==
    IF i >= totalPixels THEN acc
    ELSE Bind(WideAdd(acc, WideOf(data[(c - 1) * totalPixels + i + 1] * ScorerStds[c]
                                  + ScorerMeans[c] * 10^6)),
              LAMBDA sum : ChannelSumFrom(data, c, totalPixels, i + 1, sum))

\* channelSum / totalPixels, in units of 10^-8
ChannelMean(data, c, totalPixels) ==
    WideToInt(WideDiv(WideDiv(ChannelSumFrom(data, c, totalPixels, 0, <<0, 0>>), 10),
                      totalPixels))

\* the mean brightness across channels, in units of 10^-8
Brightness(data, totalPixels) ==
    (ChannelMean(data, 1, totalPixels) + ChannelMean(data, 2, totalPixels)
        + ChannelMean(data, 3, totalPixels)) \div 3

\* Math.round(x) for x in units of 10^-8: floor(x + 0.5)
RoundOne(x) == (2 * x + ONE) \div (2 * ONE)

\* Math.round((1 - brightness) * (classCount - 1))
CenterRaw(brightness) == RoundOne((ONE - brightness) * (Len(TURBIDITY_CLASSES) - 1))

\* Math.min(classCount - 1, Math.max(0, ...))
Center(brightness) ==
    Min2(Len(TURBIDITY_CLASSES) - 1, Max2(0, CenterRaw(brightness)))

\* rng(): the uint32 u of u / 2^32, to 24 fractional bits
RngFloat(u) == u[1] * 2^8 + u[2] \div 2^8

\* the coefficients 1.8, 0.3 and 0.5 * 0.3 of the logit formula
LogitSlope == (18 * FIX) \div 10
JitterAmplitude == (3 * FIX) \div 10
JitterOffset == (15 * FIX) \div 100

\* (rng() - 0.5) * 0.3
Jitter(u) == MulFix(RngFloat(u), JitterAmplitude) - JitterOffset

\* the jitter alone, without the distance term
LogitFlat(i, center, u) == Jitter(u)

\* -distance * 1.8 + (rng() - 0.5) * 0.3; i and center count from 0
Logit(i, center, u) ==
    LET distance == IF i >= center THEN i - center ELSE center - i
    IN  (0 - distance) * LogitSlope + Jitter(u)

\* e^(-x) for 0 <= x <= FIX: the alternating series, to 12 terms
RECURSIVE ExpSeries(_, _, _, _)
ExpSeries(x, k, term, acc) ==
    IF k > 12 \/ term = 0 THEN acc
    ELSE Bind(MulFix(term, x) \div k, LAMBDA t :
         Bind(IF k % 2 = 1 THEN acc - t ELSE acc + t, LAMBDA sum :
             ExpSeries(x, k + 1, t, sum)))

ExpFrac(x) == ExpSeries(x, 1, FIX, FIX)

\* e^(-1)
ExpMinusOne == ExpFrac(FIX)

\* e^(-n) for a whole n, given e1 = e^(-1)
RECURSIVE ExpWhole(_, _)
ExpWhole(n, e1) ==
    IF n = 0 THEN FIX ELSE Bind(ExpWhole(n - 1, e1), LAMBDA e : MulFix(e, e1))

\* Math.exp(-d) for d >= 0; 0 once below the resolution
ExpNeg(d) ==
    IF d \div FIX > 16 THEN 0
    ELSE Bind(ExpMinusOne, LAMBDA e1 :
         Bind(ExpWhole(d \div FIX, e1), LAMBDA whole :
         Bind(ExpFrac(d % FIX), LAMBDA frac : MulFix(whole, frac))))

RECURSIVE SeqMax(_, _)
SeqMax(s, n) == IF n = 1 THEN s[1] ELSE Max2(s[n], SeqMax(s, n - 1))

RECURSIVE SeqSum(_, _)
SeqSum(s, n) == IF n = 0 THEN 0 ELSE s[n] + SeqSum(s, n - 1)

\* const exps = logits.map((v) => Math.exp(v - max))
SoftmaxExps(logits) ==
    Bind(SeqMax(logits, Len(logits)), LAMBDA max :
        [i \in 1..Len(logits) |-> Bind(max - logits[i], ExpNeg)])

\* exps.map((v) => v / sum)
SoftmaxNormalize(exps) ==
    Bind(SeqSum(exps, Len(exps)), LAMBDA sum :
        [i \in 1..Len(exps) |-> DivFix(exps[i], sum)])

softmax(logits) == Bind(SoftmaxExps(logits), SoftmaxNormalize)

\* -Infinity, below every probability
NegInfinity == 0 - 2^30

\* probs[i] ?? 0
ProbAt(probs, i) == IF i <= Len(probs) THEN probs[i] ELSE 0

\* the comparison with >= in place of >: the last maximum would win
BetterOrEqual(p, maxProb) == p >= maxProb

\* if (p > maxProb) { maxProb = p; maxIdx = i; }
Better(p, maxProb) == p > maxProb

\* buildResult's map callback run over classes 1..n: <<maxIdx, maxProb>>,
\* maxIdx from 0 as in the code
RECURSIVE ArgmaxScan(_, _)
ArgmaxScan(probs, n) ==
    IF n = 0 THEN << 0, NegInfinity >>
    ELSE Bind(ArgmaxScan(probs, n - 1), LAMBDA prev :
             IF Better(ProbAt(probs, n), prev[2])
             THEN << n - 1, ProbAt(probs, n) >>
             ELSE prev)

\* the list re-sorted by descending probability: entry i is the class of rank i
RankOf(probs, j) ==
    Cardinality({k \in 1..Len(TURBIDITY_CLASSES) :
                    \/ ProbAt(probs, k) > ProbAt(probs, j)
                    \/ ProbAt(probs, k) = ProbAt(probs, j) /\ k < j}) + 1

ClassEntrySorted(probs, i) ==
    LET j == CHOOSE j \in 1..Len(TURBIDITY_CLASSES) : RankOf(probs, j) = i
    IN  [ className   |-> TURBIDITY_CLASSES[j],
          label       |-> TURBIDITY_LABELS[TURBIDITY_CLASSES[j]],
          probability |-> ProbAt(probs, j) ]

\* the ClassProbability entry built for class i (1..6)
ClassEntry(probs, i) ==
    [ className   |-> TURBIDITY_CLASSES[i],
      label       |-> TURBIDITY_LABELS[TURBIDITY_CLASSES[i]],
      probability |-> ProbAt(probs, i) ]

\* the PredictionResult assembled from the scan <<maxIdx, maxProb>>
ResultOf(probs, scan) ==
    [ predictedClass |-> TURBIDITY_CLASSES[scan[1] + 1],
      label          |-> TURBIDITY_LABELS[TURBIDITY_CLASSES[scan[1] + 1]],
      confidence     |-> scan[2],
      ntuRange       |-> NTU_RANGES[TURBIDITY_CLASSES[scan[1] + 1]],
      probabilities  |-> [i \in 1..Len(TURBIDITY_CLASSES) |-> ClassEntry(probs, i)] ]

buildResult(probs) ==
    Bind(ArgmaxScan(probs, Len(TURBIDITY_CLASSES)), LAMBDA scan : ResultOf(probs, scan))

\* the generator state after k calls of rng()
RECURSIVE RngStateAt(_, _)
RngStateAt(seed, k) == IF k = 0 THEN seed ELSE RngAdvance(RngStateAt(seed, k - 1))

\* the logits of predict: the generator is advanced once per class, in order
PredictLogits(center, seed) ==
    [i \in 1..Len(TURBIDITY_CLASSES) |->
        Bind(RngStateAt(seed, i), LAMBDA s : Logit(i - 1, center, RngOutput(s)))]

predict(image) ==
    Bind(Center(Brightness(image.data, image.height * image.width)), LAMBDA center :
    Bind(hashTensor(image.data), LAMBDA seed :
    Bind(PredictLogits(center, seed), LAMBDA logits :
    Bind(softmax(logits), buildResult))))

\* ------------------------------------------------------------------------
\* Preprocessing (services/preprocessing.ts)
\* ------------------------------------------------------------------------
TARGET_SIZE == 224
RESIZE_SIZE == 256

\* IMAGENET_MEAN and IMAGENET_STD, in thousandths
IMAGENET_MEAN == << 485, 456, 406 >>
IMAGENET_STD == << 229, 224, 225 >>

\* the whole margin instead of half of it
CropOffsetFull(size, target) == size - target

\* Math.floor((width - TARGET_SIZE) / 2), for either axis
CropOffset(size, target) == (size - target) \div 2

\* const srcOffset = ((cropTop + y) * width + cropLeft) * 3
SrcOffset(y, width, cropLeft, cropTop) == ((cropTop + y) * width + cropLeft) * 3

\* const dstOffset = y * TARGET_SIZE * 3
DstOffset(y, target) == y * target * 3

\* one resized.data.copy(cropped, dstOffset, srcOffset, srcOffset + TARGET_SIZE * 3):
\* the bytes [src, src + len) of the source land at [dst, dst + len); copy
\* stops at the end of the source (width * height * 3 bytes)
CropRow(y, width, height, target) ==
    LET src == SrcOffset(y, width, CropOffset(width, target), CropOffset(height, target))
    IN  [ dst |-> DstOffset(y, target),
          src |-> src,
          len |-> Max2(0, Min2(target * 3, width * height * 3 - src)) ]

\* the cropped buffer after all rows are copied (buffers are 1-indexed here)
Crop(data, width, height, target) ==
    [k \in 1..(target * target * 3) |->
        LET row == CropRow((k - 1) \div (target * 3), width, height, target)
        IN  IF (k - 1) - row.dst < row.len
            THEN data[row.src + ((k - 1) - row.dst) + 1]
            ELSE 0]

\* ---- binary64 arithmetic, as the doubles of applyGrayWorld are computed ----
\* A natural number below 2^120 is Limbs digits of base 2^15, lowest first.
LB == 2^15
Limbs == 8

NatOf(n) == [i \in 1..Limbs |-> IF i <= 3 THEN (n \div (LB^(i - 1))) % LB ELSE 0]

NatIsZero(a) == \A i \in 1..Limbs : a[i] = 0

NatOdd(a) == a[1] % 2 = 1

RECURSIVE CarryFrom(_, _, _)
CarryFrom(raw, i, c) ==
    IF i > Limbs THEN << >>
    ELSE Bind(raw[i] + c, LAMBDA t : << t % LB >> \o CarryFrom(raw, i + 1, t \div LB))

NatAdd(a, b) == CarryFrom([i \in 1..Limbs |-> a[i] + b[i]], 1, 0)

\* a - b for a >= b
NatSub(a, b) == CarryFrom([i \in 1..Limbs |-> a[i] - b[i]], 1, 0)

\* a * k for 0 <= k < 2^15
NatMulSmall(a, k) == CarryFrom([i \in 1..Limbs |-> a[i] * k], 1, 0)

NatLess(a, b) ==
    \E i \in 1..Limbs : a[i] < b[i] /\ \A j \in (i + 1)..Limbs : a[j] = b[j]

LimbsUp(a, k) == [i \in 1..Limbs |-> IF i > k THEN a[i - k] ELSE 0]

LimbsDown(a, k) == [i \in 1..Limbs |-> IF i + k <= Limbs THEN a[i + k] ELSE 0]

\* a * 2^n
NatShl(a, n) == NatMulSmall(LimbsUp(a, n \div 15), 2^(n % 15))

\* floor(a / 2^n)
NatShr(a, n) ==
    Bind(LimbsDown(a, n \div 15), LAMBDA x :
        [i \in 1..Limbs |->
            x[i] \div 2^(n % 15)
              + (IF i < Limbs THEN (x[i + 1] % 2^(n % 15)) * 2^(15 - (n % 15)) ELSE 0)])

\* the number of binary digits of a
BitLength(a) ==
    IF NatIsZero(a) THEN 0
    ELSE LET top == CHOOSE i \in 1..Limbs : a[i] # 0 /\ \A j \in (i + 1)..Limbs : a[j] = 0
         IN  (top - 1) * 15 + (CHOOSE b \in 1..15 : 2^b > a[top] /\ 2^(b - 1) <= a[top])

\* the largest digit t in lo..hi with d * t <= rem
RECURSIVE DigitIn(_, _, _, _)
DigitIn(rem, d, lo, hi) ==
    IF lo >= hi THEN lo
    ELSE Bind((lo + hi + 1) \div 2, LAMBDA mid :
             IF NatLess(rem, NatMulSmall(d, mid))
             THEN DigitIn(rem, d, lo, mid - 1)
             ELSE DigitIn(rem, d, mid, hi))

\* long division: the digits j, j-1, .., 0 of floor(rem / d) added to q,
\* and the remainder
RECURSIVE DivFrom(_, _, _, _)
DivFrom(rem, d, j, q) ==
    IF j < 0 THEN << q, rem >>
    ELSE Bind(LimbsUp(d, j), LAMBDA dj :
         Bind(DigitIn(rem, dj, 0, LB - 1), LAMBDA t :
         Bind(NatSub(rem, NatMulSmall(dj, t)), LAMBDA rest :
             DivFrom(rest, d, j - 1, [q EXCEPT ![j + 1] = t]))))

\* <<floor(n / d), n mod d>> for a quotient below 2^60
NatDivMod(n, d) == DivFrom(n, d, 3, NatOf(0))

\* A finite double >= 0 is <<m, e>> for the value m * 2^e with
\* 2^52 <= m < 2^53, or <<0, 0>> for zero.
\* n * 2^e, plus a nonzero fraction of 2^e when sticky, rounded to the nearest
\* double, ties to even
RoundNat(n, sticky, e) ==
    Bind(BitLength(n), LAMBDA len :
        IF len = 0 THEN << n, 0 >>
        ELSE IF len <= 53 THEN << NatShl(n, 53 - len), e - (53 - len) >>
        ELSE Bind(NatShr(n, len - 53), LAMBDA q :
             Bind(NatSub(n, NatShl(q, len - 53)), LAMBDA r :
             Bind(NatShl(NatOf(1), len - 54), LAMBDA half :
             Bind(IF NatLess(half, r) \/ (r = half /\ (sticky \/ NatOdd(q)))
                  THEN NatAdd(q, NatOf(1)) ELSE q, LAMBDA m :
                 IF BitLength(m) = 54
                 THEN << NatShr(m, 1), e + (len - 53) + 1 >>
                 ELSE << m, e + (len - 53) >>)))))

DoubleOfInt(n) == RoundNat(NatOf(n), FALSE, 0)

DoubleIsZero(x) == NatIsZero(x[1])

\* a + b
DoubleAdd(a, b) ==
    IF DoubleIsZero(a) THEN b
    ELSE IF DoubleIsZero(b) THEN a
    ELSE RoundNat(NatAdd(NatShl(a[1], a[2] - Min2(a[2], b[2])),
                         NatShl(b[1], b[2] - Min2(a[2], b[2]))),
                  FALSE, Min2(a[2], b[2]))

\* a / b for b > 0
DoubleDiv(a, b) ==
    IF DoubleIsZero(a) THEN a
    ELSE Bind(NatDivMod(NatShl(a[1], 56), b[1]), LAMBDA qr :
             RoundNat(qr[1], ~NatIsZero(qr[2]), a[2] - b[2] - 56))

\* p * x for an integer 0 <= p <= 255
DoubleTimes(p, x) == RoundNat(NatMulSmall(x[1], p), FALSE, x[2])

\* Math.min(255, Math.max(0, Math.round(x))) for x >= 0: Math.round is
\* floor(x + 1/2) computed exactly
RoundClamp(x) ==
    IF DoubleIsZero(x) \/ 0 - x[2] >= 54 THEN 0
    ELSE IF 0 - x[2] <= 44 THEN 255
    ELSE Bind(NatShr(NatAdd(x[1], NatShl(NatOf(1), 0 - x[2] - 1)), 0 - x[2]), LAMBDA n :
             Min2(255, n[1] + n[2] * LB))

\* const epsilon = 1e-6: the double nearest to 1/10^6
Epsilon == DoubleDiv(DoubleOfInt(1), DoubleOfInt(1000000))

\* sumR, sumG, sumB: the sum of channel c (1..3) over the first n pixels
RECURSIVE ChannelTotal(_, _, _)
ChannelTotal(pixels, c, n) ==
    IF n = 0 THEN 0 ELSE pixels[(n - 1) * 3 + c] + ChannelTotal(pixels, c, n - 1)

\* meanR = sumR / pixelCount + epsilon
MeanOf(sum, pixelCount) ==
    DoubleAdd(DoubleDiv(DoubleOfInt(sum), DoubleOfInt(pixelCount)), Epsilon)

\* a third of the sum of the means, halved instead
OverallMeanHalved(meanR, meanG, meanB) ==
    DoubleDiv(DoubleAdd(DoubleAdd(meanR, meanG), meanB), DoubleOfInt(2))

\* overallMean = (meanR + meanG + meanB) / 3
OverallMean(meanR, meanG, meanB) ==
    DoubleDiv(DoubleAdd(DoubleAdd(meanR, meanG), meanB), DoubleOfInt(3))

\* scaleR = overallMean / meanR
Scale(overall, mean) == DoubleDiv(overall, mean)

\* Math.min(255, Math.max(0, Math.round(pixels[i] * scale)))
ScaledByte(p, scale) == RoundClamp(DoubleTimes(p, scale))

\* the three scale factors <<scaleR, scaleG, scaleB>> of applyGrayWorld
GrayWorldScales(pixels, length) ==
    Bind(MeanOf(ChannelTotal(pixels, 1, length \div 3), length \div 3), LAMBDA meanR :
    Bind(MeanOf(ChannelTotal(pixels, 2, length \div 3), length \div 3), LAMBDA meanG :
    Bind(MeanOf(ChannelTotal(pixels, 3, length \div 3), length \div 3), LAMBDA meanB :
    Bind(OverallMean(meanR, meanG, meanB), LAMBDA overall :
        << Scale(overall, meanR), Scale(overall, meanG), Scale(overall, meanB) >>))))

\* the out buffer filled by the second loop
GrayWorldOut(pixels, length, scales) ==
    [k \in 1..length |-> ScaledByte(pixels[k], scales[((k - 1) % 3) + 1])]

applyGrayWorld(pixels, length) ==
    Bind(GrayWorldScales(pixels, length), LAMBDA scales : GrayWorldOut(pixels, length, scales))

\* (balanced[..] / 255 - IMAGENET_MEAN[c]) / IMAGENET_STD[c] as stored in the
\* Float32Array: (1000 b - 255 mean) / (255 std), to the nearest 10^-6
NormValue(b, c) ==
    LET a  == (1000 * b - 255 * IMAGENET_MEAN[c]) * 2000
        d2 == 2 * 51 * IMAGENET_STD[c]
    IN  (a \div d2) * 200 + ((a % d2) * 200 + 51 * IMAGENET_STD[c]) \div d2

\* the CHW tensor: tensor[c * totalPixels + i] from balanced[i * 3 + c]
Normalize(balanced, totalPixels) ==
    [j \in 1..(3 * totalPixels) |->
        NormValue(balanced[((j - 1) % totalPixels) * 3 + (j - 1) \div totalPixels + 1],
                  (j - 1) \div totalPixels + 1)]

\* the body of preprocessImage after sharp has resolved with resized
\* (data, info.width, info.height), for the crop size target
TensorOfResized(resized, target) ==
    Bind(Crop(resized.data, resized.width, resized.height, target), LAMBDA cropped :
    Bind(applyGrayWorld(cropped, Len(cropped)), LAMBDA balanced :
        [ data     |-> Normalize(balanced, target * target),
          channels |-> 3,
          height   |-> target,
          width    |-> target ]))

\* ------------------------------------------------------------------------
\* Errors (types/turbidity.ts) and the outcomes of sharp and multer
\* ------------------------------------------------------------------------
\* new AppError(message, statusCode, code)
AppError(message, statusCode, code) ==
    [ kind |-> "AppError", message |-> message, statusCode |-> statusCode, code |-> code ]

\* AppError.validation(message)
validation(message) == AppError(message, 400, "VALIDATION_ERROR")

\* an error of the same kind that drops the detail
imageProcessingBare(detail) ==
    AppError("Image processing failed", 422, "IMAGE_PROCESSING_FAILED")

\* AppError.imageProcessing(detail)
imageProcessing(detail) ==
    AppError("Image processing failed: " \o detail, 422, "IMAGE_PROCESSING_FAILED")

\* a plain Error, and a thrown value that is no Error at all
PlainError(message) ==
    [ kind |-> "Error", message |-> message, statusCode |-> 0, code |-> "" ]
ThrownValue == [ kind |-> "value", message |-> "", statusCode |-> 0, code |-> "" ]

\* what multer hands to the callback when the upload exceeds limits.fileSize
MulterError ==
    [ kind |-> "MulterError", message |-> "File too large", statusCode |-> 0,
      code |-> "LIMIT_FILE_SIZE" ]

\* what the fileFilter hands over for a MIME type outside ALLOWED_MIME_TYPES
UnsupportedType == validation("Unsupported image type")

\* the catch clause of preprocessImage: the value it throws for the value caught
CatchOf(err) ==
    IF err.kind = "AppError" THEN err
    ELSE imageProcessing(IF err.kind \in {"Error", "MulterError"} THEN err.message ELSE "Unknown error")

\* ------------------------------------------------------------------------
\* State
\* ------------------------------------------------------------------------
VARIABLES
    \* POST /api/predict, per request
    pc,          \* where the handler of the request stands
    request,     \* what the client sent
    imageBuffer, \* what resolveImageBuffer resolved with
    decoded,     \* how the promise of sharp settled
    settled,     \* how the promise of preprocessImage settled
    nextCalls,   \* the errors passed to next(), in order
    jsonCalls,   \* the bodies passed to res.json(), in order
    ran,         \* which of preprocessImage and predict the handler has called
    \* predict, per invocation
    stage, input, tensor, brightness, center, gen, logits, out,
    \* the crop loop of preprocessImage
    cropSource, cropY, segments,
    \* applyGrayWorld
    gwPixels, gwScales, gwOut,
    \* hashTensor
    hFill, hLen, hI, hHash, hReads, hSeed,
    \* buildResult
    rProbs, rResult

handlerVars ==
    << pc, request, imageBuffer, decoded, settled, nextCalls, jsonCalls, ran >>
predictVars == << stage, input, tensor, brightness, center, gen, logits, out >>
cropVars == << cropSource, cropY, segments >>
grayVars == << gwPixels, gwScales, gwOut >>
hashVars == << hFill, hLen, hI, hHash, hReads, hSeed >>
resultVars == << rProbs, rResult >>
vars == << handlerVars, predictVars, cropVars, grayVars, hashVars, resultVars >>

\* a component that takes no part in the specification at hand
HandlerIdle ==
    /\ pc = << >> /\ request = << >> /\ imageBuffer = << >> /\ decoded = << >>
    /\ settled = << >> /\ nextCalls = << >> /\ jsonCalls = << >> /\ ran = << >>
PredictIdle ==
    /\ stage = << >> /\ input = << >> /\ tensor = << >> /\ brightness = << >>
    /\ center = << >> /\ gen = << >> /\ logits = << >> /\ out = << >>
CropIdle == cropSource = << >> /\ cropY = 0 /\ segments = << >>
GrayIdle == gwPixels = << >> /\ gwScales = << >> /\ gwOut = << >>
HashIdle ==
    /\ hFill = 0 /\ hLen = 0 /\ hI = 0 /\ hHash = <<0, 0>> /\ hReads = 0
    /\ hSeed = << >>
ResultIdle == rProbs = << >> /\ rResult = << >>

\* ------------------------------------------------------------------------
\* POST /api/predict (routes/predict.ts)
\* ------------------------------------------------------------------------
NumReq == 2
ResizeSide == 3
TargetSide == 1

Requests == 1..NumReq

\* the absence of a buffer: resolve(null), return null
NullBuffer == "null"

\* resolveImageBuffer has not resolved yet; a promise has not settled yet
Unresolved == "unresolved"
Pending == [ state |-> "pending" ]

\* image buffers: two that sharp decodes, one that it does not
Decodable == { "dark", "tinted" }
Buffers == Decodable \cup { "corrupt" }

\* what a client sends: the Content-Type, and the form data or the JSON body
ClientRequests ==
    [ contentType : {"multipart/form-data"},
      payload : {"too_large", "bad_type", "no_file"} \cup Buffers ]
    \cup [ contentType : {"application/json"}, payload : {"invalid"} \cup Buffers ]
    \cup [ contentType : {"text/plain"}, payload : {"none"} ]

\* the raw RGB image sharp resolves with for a decodable buffer, resized to
\* ResizeSide x ResizeSide
ResizedOf(buffer) ==
    [ data   |-> [k \in 1..(ResizeSide * ResizeSide * 3) |->
                     IF buffer = "dark" THEN 20
                     ELSE 60 * (3 - ((k - 1) % 3)) + 7 * ((k - 1) \div 3)],
      width  |-> ResizeSide,
      height |-> ResizeSide ]

\* what sharp may throw
Throwables ==
    { PlainError("Input buffer contains unsupported image format"),
      validation("Image rejected"),
      ThrownValue }

\* how the promise of sharp(imageBuffer)...toBuffer() may settle
SharpOutcomes(buffer) ==
    IF buffer \in Decodable
    THEN { [ state |-> "fulfilled", resized |-> ResizedOf(buffer), thrown |-> << >> ] }
    ELSE { [ state |-> "rejected", resized |-> << >>, thrown |-> t ] : t \in Throwables }

\* how the promise of preprocessImage settles once that of sharp has
PreprocessOutcome(sharpOutcome) ==
    IF sharpOutcome.state = "fulfilled"
    THEN [ state  |-> "fulfilled",
           value  |-> TensorOfResized(sharpOutcome.resized, TargetSide),
           reason |-> << >> ]
    ELSE [ state  |-> "rejected",
           value  |-> << >>,
           reason |-> CatchOf(sharpOutcome.thrown) ]

\* the handler going on whatever was resolved
AlwaysProceeds(buffer) == TRUE

\* if (!imageBuffer) return;
Proceeds(buffer) == buffer # NullBuffer

Init ==
    /\ pc = [r \in Requests |-> "idle"]
    /\ request = [r \in Requests |-> << >>]
    /\ imageBuffer = [r \in Requests |-> Unresolved]
    /\ decoded = [r \in Requests |-> Pending]
    /\ settled = [r \in Requests |-> Pending]
    /\ nextCalls = [r \in Requests |-> << >>]
    /\ jsonCalls = [r \in Requests |-> << >>]
    /\ ran = [r \in Requests |-> {}]
    /\ PredictIdle /\ CropIdle /\ GrayIdle /\ HashIdle /\ ResultIdle

\* next(err), resolve(null) or return null
Refuse(r, err) ==
    /\ nextCalls' = [nextCalls EXCEPT ![r] = Append(@, err)]
    /\ imageBuffer' = [imageBuffer EXCEPT ![r] = NullBuffer]

\* resolve(buffer) or return buffer
Resolve(r, buffer) ==
    /\ imageBuffer' = [imageBuffer EXCEPT ![r] = buffer]
    /\ UNCHANGED nextCalls

\* the handler is called and runs resolveImageBuffer up to its first wait
Receive(r, req) ==
    /\ pc[r] = "idle"
    /\ request' = [request EXCEPT ![r] = req]
    /\ IF req.contentType = "multipart/form-data"
       THEN /\ pc' = [pc EXCEPT ![r] = "uploading"]
            /\ UNCHANGED << imageBuffer, nextCalls >>
       ELSE /\ pc' = [pc EXCEPT ![r] = "resolved"]
            /\ IF req.contentType = "application/json"
               THEN IF req.payload = "invalid"
                    THEN Refuse(r, validation("Invalid base64-encoded image data"))
                    ELSE Resolve(r, req.payload)
               ELSE Refuse(r, validation(
                        "Unsupported Content-Type. Use multipart/form-data or application/json."))
    /\ UNCHANGED << decoded, settled, jsonCalls, ran >>
    /\ UNCHANGED << predictVars, cropVars, grayVars, hashVars, resultVars >>

\* multer calls the callback given to upload.single("image")
UploadCallback(r) ==
    /\ pc[r] = "uploading"
    /\ pc' = [pc EXCEPT ![r] = "resolved"]
    /\ IF request[r].payload = "too_large" THEN Refuse(r, MulterError)
       ELSE IF request[r].payload = "bad_type" THEN Refuse(r, UnsupportedType)
       ELSE IF request[r].payload = "no_file"
            THEN Refuse(r, validation("No image file provided in form data."))
       ELSE Resolve(r, request[r].payload)
    /\ UNCHANGED << request, decoded, settled, jsonCalls, ran >>
    /\ UNCHANGED << predictVars, cropVars, grayVars, hashVars, resultVars >>

\* the handler resumes after await resolveImageBuffer: it returns, or calls
\* preprocessImage, which starts sharp
HandlerResumes(r) ==
    /\ pc[r] = "resolved"
    /\ IF Proceeds(imageBuffer[r])
       THEN /\ pc' = [pc EXCEPT ![r] = "decoding"]
            /\ ran' = [ran EXCEPT ![r] = @ \cup {"preprocessImage"}]
       ELSE /\ pc' = [pc EXCEPT ![r] = "done"]
            /\ UNCHANGED ran
    /\ UNCHANGED << request, imageBuffer, decoded, settled, nextCalls, jsonCalls >>
    /\ UNCHANGED << predictVars, cropVars, grayVars, hashVars, resultVars >>

\* the promise of sharp settles
SharpSettles(r) ==
    /\ pc[r] = "decoding"
    /\ \E o \in SharpOutcomes(imageBuffer[r]) : decoded' = [decoded EXCEPT ![r] = o]
    /\ pc' = [pc EXCEPT ![r] = "decoded"]
    /\ UNCHANGED << request, imageBuffer, settled, nextCalls, jsonCalls, ran >>
    /\ UNCHANGED << predictVars, cropVars, grayVars, hashVars, resultVars >>

\* preprocessImage resumes: crop, gray-world, normalize and return, or the
\* catch clause
PreprocessSettles(r) ==
    /\ pc[r] = "decoded"
    /\ settled' = [settled EXCEPT ![r] = PreprocessOutcome(decoded[r])]
    /\ pc' = [pc EXCEPT ![r] = "settled"]
    /\ UNCHANGED << request, imageBuffer, decoded, nextCalls, jsonCalls, ran >>
    /\ UNCHANGED << predictVars, cropVars, grayVars, hashVars, resultVars >>

\* the handler resumes after await preprocessImage: predict and res.json, or
\* the catch clause and next(err)
HandlerFinishes(r) ==
    /\ pc[r] = "settled"
    /\ pc' = [pc EXCEPT ![r] = "done"]
    /\ IF settled[r].state = "fulfilled"
       THEN /\ ran' = [ran EXCEPT ![r] = @ \cup {"predict"}]
            /\ jsonCalls' = [jsonCalls EXCEPT ![r] = Append(@, predict(settled[r].value))]
            /\ UNCHANGED nextCalls
       ELSE /\ nextCalls' = [nextCalls EXCEPT ![r] = Append(@, settled[r].reason)]
            /\ UNCHANGED << jsonCalls, ran >>
    /\ UNCHANGED << request, imageBuffer, decoded, settled >>
    /\ UNCHANGED << predictVars, cropVars, grayVars, hashVars, resultVars >>

\* the steps the event loop takes for a request once it is received
Step(r) ==
    \/ UploadCallback(r)
    \/ HandlerResumes(r)
    \/ SharpSettles(r)
    \/ PreprocessSettles(r)
    \/ HandlerFinishes(r)

Next ==
    \E r \in Requests :
        \/ \E req \in ClientRequests : Receive(r, req)
        \/ Step(r)

Spec == Init /\ [][Next]_vars

\* C3: when sharp throws, preprocessImage yields no tensor and rejects with
\* the AppError caught, unchanged, or else with IMAGE_PROCESSING_FAILED (422)
\* whose message is "Image processing failed: " followed by the message of the
\* Error caught ("Unknown error" for a value that is no Error); predict is
\* not called for that request, nothing is sent with res.json, and the
\* rejection is what the handler passes to next.
FailureIsAllOrNothing ==
    \A r \in Requests :
        (pc[r] \in {"settled", "done"} /\ decoded[r].state = "rejected") =>
            /\ settled[r].state = "rejected"
            /\ settled[r].value = << >>
            /\ IF decoded[r].thrown.kind = "AppError"
               THEN settled[r].reason = decoded[r].thrown
               ELSE /\ settled[r].reason.kind = "AppError"
                    /\ settled[r].reason.code = "IMAGE_PROCESSING_FAILED"
                    /\ settled[r].reason.statusCode = 422
                    /\ settled[r].reason.message =
                          "Image processing failed: "
                             \o (IF decoded[r].thrown.kind = "Error"
                                 THEN decoded[r].thrown.message ELSE "Unknown error")
            /\ "predict" \notin ran[r]
            /\ jsonCalls[r] = << >>
            /\ pc[r] = "done" => nextCalls[r] = << settled[r].reason >>

\* a finished request whose buffer sharp rejected with a plain Error
FailureWitness ==
    \E r \in Requests :
        /\ pc[r] = "done"
        /\ decoded[r].state = "rejected"
        /\ decoded[r].thrown.kind = "Error"
        /\ nextCalls[r][1].code = "IMAGE_PROCESSING_FAILED"
        /\ nextCalls[r][1].message =
              "Image processing failed: Input buffer contains unsupported image format"

\* what the handler has told the framework so far
Outcomes(r) == Len(nextCalls[r]) + Len(jsonCalls[r])

\* the request was refused by resolveImageBuffer
Refused(r) == pc[r] \in {"resolved", "done"} /\ imageBuffer[r] = NullBuffer

\* C10: a request never has more than one of res.json and next(err), and a
\* finished one has exactly one; a request resolveImageBuffer refused has had
\* next called once and runs neither preprocessImage nor predict.
ExactlyOneOutcome ==
    \A r \in Requests :
        /\ Outcomes(r) <= 1
        /\ pc[r] = "done" => Outcomes(r) = 1
        /\ Refused(r) => /\ Len(nextCalls[r]) = 1
                         /\ jsonCalls[r] = << >>
                         /\ ran[r] = {}

\* one request answered with res.json and another refused, both finished
OutcomeWitness ==
    \E a, b \in Requests :
        /\ pc[a] = "done" /\ pc[b] = "done"
        /\ Len(jsonCalls[a]) = 1 /\ nextCalls[a] = << >>
        /\ ran[a] = {"preprocessImage", "predict"}
        /\ imageBuffer[b] = NullBuffer /\ Len(nextCalls[b]) = 1 /\ ran[b] = {}

\* ------------------------------------------------------------------------
\* buildResult on its own
\* ------------------------------------------------------------------------
MaxProb == 2

ProbVectors == [1..Len(TURBIDITY_CLASSES) -> 0..MaxProb]

ResultInit ==
    /\ rProbs \in ProbVectors
    /\ rResult = << >>
    /\ HandlerIdle /\ PredictIdle /\ CropIdle /\ GrayIdle /\ HashIdle

BuildResult ==
    /\ rResult = << >>
    /\ rResult' = buildResult(rProbs)
    /\ UNCHANGED << rProbs, handlerVars, predictVars, cropVars, grayVars, hashVars >>

ResultNext == BuildResult

ResultSpec == ResultInit /\ [][ResultNext]_vars

MaxOf(probs) == SeqMax(probs, Len(probs))

\* the index (from 1) of a class name in the canonical order
ClassIndex(cls) == CHOOSE i \in 1..Len(TURBIDITY_CLASSES) : TURBIDITY_CLASSES[i] = cls

\* C4: the predicted class is the class at the lowest canonical index whose
\* probability equals the maximum of the vector; on a tie the earlier one wins.
ArgmaxTieBreak ==
    rResult # << >> =>
        LET k == ClassIndex(rResult.predictedClass)
        IN  /\ rProbs[k] = MaxOf(rProbs)
            /\ \A j \in 1..(k - 1) : rProbs[j] < MaxOf(rProbs)

\* a result built from a vector in which two classes share the maximum
ArgmaxTieWitness ==
    /\ rResult # << >>
    /\ \E i, j \in 1..Len(TURBIDITY_CLASSES) :
          /\ i < j /\ rProbs[i] = MaxOf(rProbs) /\ rProbs[j] = MaxOf(rProbs)
          /\ rProbs[1] < MaxOf(rProbs)
          /\ rResult.predictedClass = TURBIDITY_CLASSES[i]

\* C5: six entries in canonical order, entry i carrying class i, its label and
\* probs[i]; confidence is the probability listed for the predicted class and
\* the maximum of the list; label and ntuRange are the predicted class's.
ResultShape ==
    rResult # << >> =>
        /\ Len(rResult.probabilities) = 6
        /\ [i \in 1..6 |-> rResult.probabilities[i].className]
              = << "ultra_cloudy", "very_cloudy", "cloudy",
                   "lightly_cloudy", "lightly_clear", "clear" >>
        /\ \A i \in 1..6 :
              /\ rResult.probabilities[i].probability = rProbs[i]
              /\ rResult.probabilities[i].label
                    = TURBIDITY_LABELS[rResult.probabilities[i].className]
        /\ \E i \in 1..6 :
              /\ rResult.probabilities[i].className = rResult.predictedClass
              /\ rResult.probabilities[i].probability = rResult.confidence
        /\ \A i \in 1..6 : rResult.probabilities[i].probability <= rResult.confidence
        /\ rResult.label = TURBIDITY_LABELS[rResult.predictedClass]
        /\ rResult.ntuRange = NTU_RANGES[rResult.predictedClass]

\* a result whose list is not in descending order of probability
ResultShapeWitness ==
    /\ rResult # << >>
    /\ rResult.predictedClass = "lightly_cloudy"
    /\ rResult.probabilities[1].probability < rResult.probabilities[2].probability
    /\ rResult.probabilities[6].probability > rResult.probabilities[5].probability

\* ------------------------------------------------------------------------
\* predict, as concurrent invocations
\* ------------------------------------------------------------------------
NumCalls == 2
PredictSide == 1
GraySteps == 3

Calls == 1..NumCalls

\* gray levels spread over 0..255
GrayLevels == { (255 * k) \div GraySteps : k \in 0..GraySteps }

\* tensor elements outside the range the normalizer produces
FlatValues == { 0 - 5000000, 6000000 }

TensorInputs ==
    [kind : {"gray"}, level : GrayLevels] \cup [kind : {"flat"}, level : FlatValues]

\* the tensor of an input: of a uniform gray image, what the normalizer stores
\* for it; otherwise the same value throughout
TensorOf(inp) ==
    LET n == PredictSide * PredictSide
    IN  IF inp.kind = "gray"
        THEN Normalize([k \in 1..(3 * n) |-> inp.level], n)
        ELSE [k \in 1..(3 * n) |-> inp.level]

ImageOf(data) ==
    [ data |-> data, channels |-> 3, height |-> PredictSide, width |-> PredictSide ]

\* a generator shared by all invocations instead of one per createRng call
SharedGenerator(c) == 1

\* the generator an invocation uses: createRng's own `let s`
GeneratorOf(c) == c

PredictInit ==
    /\ stage = [c \in Calls |-> "idle"]
    /\ input = [c \in Calls |-> << >>]
    /\ tensor = [c \in Calls |-> << >>]
    /\ brightness = [c \in Calls |-> 0]
    /\ center = [c \in Calls |-> 0]
    /\ gen = [c \in Calls |-> <<0, 0>>]
    /\ logits = [c \in Calls |-> << >>]
    /\ out = [c \in Calls |-> << >>]
    /\ HandlerIdle /\ CropIdle /\ GrayIdle /\ HashIdle /\ ResultIdle

\* predict(image) up to const rng = createRng(hashTensor(image.data))
PredictBegin(c, inp) ==
    /\ stage[c] = "idle"
    /\ \E data \in {TensorOf(inp)} :
       \E b \in {Brightness(data, PredictSide * PredictSide)} :
           /\ tensor' = [tensor EXCEPT ![c] = data]
           /\ brightness' = [brightness EXCEPT ![c] = b]
           /\ center' = [center EXCEPT ![c] = Center(b)]
           /\ gen' = [gen EXCEPT ![GeneratorOf(c)] = hashTensor(data)]
    /\ input' = [input EXCEPT ![c] = inp]
    /\ stage' = [stage EXCEPT ![c] = "logits"]
    /\ UNCHANGED << logits, out >>
    /\ UNCHANGED << handlerVars, cropVars, grayVars, hashVars, resultVars >>

\* one call of the map callback: the generator advances once, one logit is added
PredictLogit(c) ==
    /\ stage[c] = "logits"
    /\ Len(logits[c]) < Len(TURBIDITY_CLASSES)
    /\ \E s1 \in {RngAdvance(gen[GeneratorOf(c)])} :
           /\ gen' = [gen EXCEPT ![GeneratorOf(c)] = s1]
           /\ logits' = [logits EXCEPT
                  ![c] = Append(@, Logit(Len(@), center[c], RngOutput(s1)))]
    /\ UNCHANGED << stage, input, tensor, brightness, center, out >>
    /\ UNCHANGED << handlerVars, cropVars, grayVars, hashVars, resultVars >>

\* return buildResult(softmax(logits))
PredictReturn(c) ==
    /\ stage[c] = "logits"
    /\ Len(logits[c]) = Len(TURBIDITY_CLASSES)
    /\ out' = [out EXCEPT ![c] = Bind(softmax(logits[c]), buildResult)]
    /\ stage' = [stage EXCEPT ![c] = "done"]
    /\ UNCHANGED << input, tensor, brightness, center, gen, logits >>
    /\ UNCHANGED << handlerVars, cropVars, grayVars, hashVars, resultVars >>

PredictNext ==
    \E c \in Calls :
        \/ \E inp \in TensorInputs : PredictBegin(c, inp)
        \/ PredictLogit(c)
        \/ PredictReturn(c)

PredictSpec == PredictInit /\ [][PredictNext]_vars

\* C1: of two uniform-gray tensors, the one of lower reconstructed brightness
\* has the lower or equal center index (darker maps to cloudier).
DarkerIsCloudier ==
    \A a, b \in Calls :
        ( /\ stage[a] # "idle" /\ stage[b] # "idle"
          /\ input[a].kind = "gray" /\ input[b].kind = "gray"
          /\ brightness[a] < brightness[b] )
        => center[a] <= center[b]

\* C2: every finished invocation returned what predict returns for its tensor
\* alone, so two invocations on identical tensors return identical results
\* whatever ran in between; and a generator is advanced only by its own
\* invocation: it is the seed of its tensor advanced once per logit so far.
Deterministic ==
    \A a \in Calls :
        /\ stage[a] = "done" => out[a] = predict(ImageOf(tensor[a]))
        /\ stage[a] # "idle" =>
              gen[GeneratorOf(a)] = RngStateAt(hashTensor(tensor[a]), Len(logits[a]))
        /\ \A b \in Calls :
              (stage[a] = "done" /\ stage[b] = "done" /\ tensor[a] = tensor[b])
                  => out[a] = out[b]

\* two finished invocations on the same tensor, and two on different tensors
DeterministicWitness ==
    /\ stage[1] = "done" /\ stage[2] = "done"
    /\ tensor[1] = tensor[2]
    /\ Len(out[1].probabilities) = 6 /\ out[1] = out[2]

\* C9: the class returned is the class at index center, whatever the jitter.
JitterNeverDecides ==
    \A c \in Calls :
        stage[c] = "done" => out[c].predictedClass = TURBIDITY_CLASSES[center[c] + 1]

\* a finished invocation whose jitter raised a neighbour's logit above the
\* other neighbour's, the center still winning
JitterWitness ==
    \E c \in Calls :
        /\ stage[c] = "done"
        /\ center[c] = 3
        /\ logits[c][3] # logits[c][5]
        /\ out[c].predictedClass = "lightly_cloudy"

\* ------------------------------------------------------------------------
\* The crop loop of preprocessImage, on the sizes of the code
\* ------------------------------------------------------------------------
\* The source holds width * height * 3 bytes; a byte of the cropped buffer is
\* known by the index of the source byte copied into it.
CropInit ==
    /\ cropSource = [ width |-> RESIZE_SIZE, height |-> RESIZE_SIZE ]
    /\ cropY = 0
    /\ segments = << >>
    /\ HandlerIdle /\ PredictIdle /\ GrayIdle /\ HashIdle /\ ResultIdle

\* one pass of for (let y = 0; y < TARGET_SIZE; y++)
CropCopyRow ==
    /\ cropY < TARGET_SIZE
    /\ segments' = Append(segments,
                          CropRow(cropY, cropSource.width, cropSource.height, TARGET_SIZE))
    /\ cropY' = cropY + 1
    /\ UNCHANGED cropSource
    /\ UNCHANGED << handlerVars, predictVars, grayVars, hashVars, resultVars >>

CropNext == CropCopyRow

CropSpec == CropInit /\ [][CropNext]_vars

\* the index in the cropped buffer of channel c of the pixel at (x, y)
CroppedIndex(x, y, c) == (y * TARGET_SIZE + x) * 3 + c

\* the index in the source of channel c of the pixel at (x, y)
SourceIndex(x, y, c) == (y * cropSource.width + x) * 3 + c

\* C6: the crop offsets are 16 and 16; the copy of row y fills exactly the
\* bytes of row y of the cropped buffer, the byte at (x, y, c) being the
\* source byte at (x + 16, y + 16, c); and every byte read lies inside the
\* source buffer.
CenterCrop ==
    /\ CropOffset(cropSource.width, TARGET_SIZE) = 16
    /\ CropOffset(cropSource.height, TARGET_SIZE) = 16
    /\ Len(segments) = cropY
    /\ \A y \in 0..(cropY - 1) :
          /\ segments[y + 1].dst = CroppedIndex(0, y, 0)
          /\ segments[y + 1].len = TARGET_SIZE * 3
          /\ segments[y + 1].src >= 0
          /\ segments[y + 1].src + segments[y + 1].len
                <= cropSource.width * cropSource.height * 3
          /\ \A x \in 0..(TARGET_SIZE - 1) : \A c \in 0..2 :
                segments[y + 1].src + (CroppedIndex(x, y, c) - segments[y + 1].dst)
                   = SourceIndex(x + 16, y + 16, c)

\* the loop has ended and pixel (0, 0) holds source pixel (16, 16)
CenterCropWitness ==
    /\ cropY = TARGET_SIZE
    /\ Len(segments) = TARGET_SIZE
    /\ segments[1].src = SourceIndex(16, 16, 0)
    /\ segments[TARGET_SIZE].src + segments[TARGET_SIZE].len - 1 = SourceIndex(239, 239, 2)

\* ------------------------------------------------------------------------
\* applyGrayWorld on its own
\* ------------------------------------------------------------------------
GrayBytes == { 0, 3, 255 }
GrayPixelCounts == { 1, 2 }

\* three-pixel buffers whose channel sums are all 1, and all 5
GrayExtra ==
    { << 1, 0, 0, 0, 1, 0, 0, 0, 1 >>,
      << 1, 1, 1, 0, 0, 0, 0, 0, 0 >>,
      << 5, 0, 3, 0, 3, 1, 0, 2, 1 >> }

GrayBuffers ==
    UNION { [1..(3 * n) -> GrayBytes] : n \in GrayPixelCounts } \cup GrayExtra

GrayInit ==
    /\ gwPixels \in GrayBuffers
    /\ gwScales = << >>
    /\ gwOut = << >>
    /\ HandlerIdle /\ PredictIdle /\ CropIdle /\ HashIdle /\ ResultIdle

ApplyGrayWorld ==
    /\ gwOut = << >>
    /\ \E scales \in {GrayWorldScales(gwPixels, Len(gwPixels))} :
          /\ gwScales' = scales
          /\ gwOut' = GrayWorldOut(gwPixels, Len(gwPixels), scales)
    /\ UNCHANGED gwPixels
    /\ UNCHANGED << handlerVars, predictVars, cropVars, hashVars, resultVars >>

GrayNext == ApplyGrayWorld

GraySpec == GrayInit /\ [][GrayNext]_vars

\* the R, G and B means of the buffer are equal
EqualMeans(pixels) ==
    /\ ChannelTotal(pixels, 1, Len(pixels) \div 3) = ChannelTotal(pixels, 2, Len(pixels) \div 3)
    /\ ChannelTotal(pixels, 2, Len(pixels) \div 3) = ChannelTotal(pixels, 3, Len(pixels) \div 3)

\* the doubles 1.0, the one below it (1 - 2^-53) and the one above (1 + 2^-52)
One == DoubleOfInt(1)
OneBelow == << NatSub(NatShl(NatOf(1), 53), NatOf(1)), 0 - 53 >>
OneAbove == << NatAdd(NatShl(NatOf(1), 52), NatOf(1)), 0 - 52 >>

\* C7 as stated: with equal channel means every scale factor is the double
\* 1.0 and the output equals the input byte for byte.
GrayScalesExactlyOne ==
    (gwOut # << >> /\ EqualMeans(gwPixels)) =>
        /\ \A c \in 1..3 : gwScales[c] = One
        /\ gwOut = gwPixels

\* C7: with equal channel means the three scale factors are one and the same
\* double, which is 1.0 or a neighbour of 1.0 (1 - 2^-53 or 1 + 2^-52, the
\* rounding of (m + m + m) / 3 / m); the output equals the input byte for
\* byte; and no step changes the input buffer.
GrayWorldInvariance ==
    /\ []((gwOut # << >> /\ EqualMeans(gwPixels)) =>
            /\ gwScales[1] \in { OneBelow, One, OneAbove }
            /\ gwScales[2] = gwScales[1] /\ gwScales[3] = gwScales[1]
            /\ gwOut = gwPixels)
    /\ [][gwPixels' = gwPixels]_vars

\* a balanced buffer of equal means whose pixels are not gray, and whose scale
\* factors are not 1.0
GrayWorldWitness ==
    /\ gwOut # << >>
    /\ EqualMeans(gwPixels)
    /\ gwPixels[1] # gwPixels[2]
    /\ gwScales[1] # One
    /\ gwOut = gwPixels

\* ------------------------------------------------------------------------
\* hashTensor on its own
\* ------------------------------------------------------------------------
MaxHashLen == 300

\* the lengths tried: all the short ones, the last length of stride 1, the
\* first of stride 2, one of stride 3, and the pipeline's 3 * 224 * 224
HashLengths ==
    1..MaxHashLen \cup { 511, 512, 768, 3 * TARGET_SIZE * TARGET_SIZE }

\* how the tensor is filled: 0 with the least value the normalizer stores,
\* 1 with values spread over all it stores
HashFills == { 0, 1 }

\* element i (from 0) of the tensor, in units of 10^-6
HashValue(fill, i) ==
    IF fill = 0 THEN 0 - 2117904 ELSE ((i * 7919) % 4757905) - 2117904

HashInit ==
    /\ hFill \in HashFills
    /\ hLen \in HashLengths
    /\ hI = 0
    /\ hHash = <<0, 0>>
    /\ hReads = 0
    /\ hSeed = << >>
    /\ HandlerIdle /\ PredictIdle /\ CropIdle /\ GrayIdle /\ ResultIdle

\* one pass of for (let i = 0; i < tensor.length; i += step)
HashRead ==
    /\ hSeed = << >>
    /\ hI < hLen
    /\ hHash' = HashStep(hHash, HashValue(hFill, hI))
    /\ hReads' = hReads + 1
    /\ hI' = hI + HashStride(hLen)
    /\ UNCHANGED << hFill, hLen, hSeed >>
    /\ UNCHANGED << handlerVars, predictVars, cropVars, grayVars, resultVars >>

\* return Math.abs(hash)
HashReturn ==
    /\ hSeed = << >>
    /\ hI >= hLen
    /\ hSeed' = AbsWord(hHash)
    /\ UNCHANGED << hFill, hLen, hI, hHash, hReads >>
    /\ UNCHANGED << handlerVars, predictVars, cropVars, grayVars, resultVars >>

HashNext == HashRead \/ HashReturn

HashSpec == HashInit /\ [][HashNext]_vars

\* C8 as stated: at most 256 values are read, whatever the length.
AtMost256Reads == hReads <= 256

\* C8: the values read are those at the multiples of the stride below L, the
\* last one less than a stride from the end; at most 256 of them when
\* L <= 256 or L is a multiple of 256, and fewer than 512 for every L; and
\* the hash is a 32-bit integer after every step.
SeedSampling ==
    /\ hHash[1] \in 0..(H16 - 1) /\ hHash[2] \in 0..(H16 - 1)
    /\ hI = hReads * HashStride(hLen)
    /\ hReads > 0 => hI - HashStride(hLen) \in 0..(hLen - 1)
    /\ hSeed # << >> => hI - HashStride(hLen) >= hLen - HashStride(hLen)
    /\ (hLen <= 256 \/ hLen % 256 = 0) => hReads <= 256
    /\ hReads < 512

\* a finished hash of the pipeline's tensor: 256 reads, the last near the end
SeedSamplingWitness ==
    /\ hSeed # << >>
    /\ hLen = 3 * TARGET_SIZE * TARGET_SIZE
    /\ hReads = 256
    /\ hI - HashStride(hLen) = 255 * 588

====
